---- MODULE Spec2Model ----
(***************************************************************************)
(* GuyPS (src/main.py): the offline map package subsystem.                  *)
(*                                                                         *)
(* The model covers the Controller's download orchestration                *)
(* (prepare_download_for_offline2, download_for_offline, the fetch thread   *)
(* running MBTilesBuilder.run, the progress poller                          *)
(* probe_mb_tiles_builder_thread), CustomMapView.load_mbtiles and the       *)
(* viewport animation (animated_center_on and its property observers).      *)
(*                                                                         *)
(* Numbers: latitudes and longitudes are hundredths of a degree; every      *)
(* float the animation interpolates (animated_zoom_property,                *)
(* animated_latlon_property, lat, lon) is held exactly as an integer         *)
(* multiple of 1/Den.                                                       *)
(***************************************************************************)
EXTENDS Integers, Sequences, FiniteSets, Bags, TLC

\* ------------------------------------------------------------- bounds

\* download jobs ever started
MaxJobs == 2
\* tiles of the largest coverage (MBTilesBuilder.nbtiles)
MaxTiles == 2
\* confirmation popups open at once
MaxPopups == 2
\* calls of animated_center_on in one run
MaxAnimCalls == 2
\* frames the clock gives each animation stage of duration 1
Frames == 2
\* deepest zoom of the tiles asked of the composite source
MaxTileZoom == 2

\* ------------------------------------------------- program constants

OFFLINE_MIN_ZOOM == 12
OFFLINE_MAX_ZOOM == 15
DEFAULT_LAT == 4361
DEFAULT_LON == 388
DEFAULT_ZOOM == 8
\* the zoom-out target of animated_center_on
ZOOM_OUT == 5
\* download_world_map: zoomlevels = range(0, 5+1)
WORLD_MIN_ZOOM == 0
WORLD_MAX_ZOOM == 5

\* download_world_map: bbox = (-179.0, -89.0, 179.0, 89.0), in hundredths
WORLD_BBOX == <<-17900, -8900, 17900, 8900>>

\* Fixed point: each capture of a running property by an animation stage can
\* add one division by Frames, and a call has two stages.
RECURSIVE Pow(_, _)
Pow(b, e) == IF e = 0 THEN 1 ELSE b * Pow(b, e - 1)

Den == Pow(Frames, 2 * MaxAnimCalls)

FP(x) == x * Den

\* int(x) of a non-negative float
ToInt(x) == x \div Den

\* ------------------------------------------------------------ values

WorldFile == "World.mbtiles"

\* A decimal string with two decimals, as the geocoder writes a coordinate
\* ("45.70", "-0.50"): sign, integer part, decimals. NumStr(v) is the string
\* of v hundredths.
NumStr(v) ==
  [neg |-> v < 0,
   whole |-> (IF v < 0 THEN -v ELSE v) \div 100,
   frac |-> (IF v < 0 THEN -v ELSE v) % 100]

\* float(x) of a decimal string, in hundredths
float(x) ==
  IF x.neg THEN -(x.whole * 100 + x.frac) ELSE x.whole * 100 + x.frac

\* raw['boundingbox'] of a place whose box is (min_lat, max_lat, min_lon,
\* max_lon): four numeric strings in that order
RawBox(box) == [i \in 1..4 |-> NumStr(box[i])]

\* What the geocoder can answer for a text (geolocator.geocode):
\* address, latitude, longitude, raw['type'], raw['boundingbox'] in geopy
\* order (min_lat, max_lat, min_lon, max_lon).
Places ==
  { [city |-> "Lyon", latitude |-> 4576, longitude |-> 484, type |-> "city",
     boundingbox |-> RawBox(<<4570, 4580, 480, 490>>)],
    [city |-> "Rue de Rivoli", latitude |-> 4886, longitude |-> 234,
     type |-> "residential",
     boundingbox |-> RawBox(<<4885, 4887, 233, 235>>)] }

\* filename = city + '.mbtiles'
Filename(city) ==
  IF city = "Lyon" THEN "Lyon.mbtiles" ELSE "Rue de Rivoli.mbtiles"

Files == {WorldFile, "Lyon.mbtiles"}

NoFile == [exists |-> FALSE]
NoCenter == <<>>
\* a call that has not returned yet
NoResult == <<>>
NoMinzoom == -1

\* A package file: its metadata block (center = <<lon, lat, zoom>> or absent,
\* minzoom or absent) and whether its writer has finished it.
PackageFile(center, minzoom, complete) ==
  [exists |-> TRUE, center |-> center, minzoom |-> minzoom, complete |-> complete]

\* Packages another tool left in the directory before the app started: the
\* metadata keys are optional in the package format.
ForeignPackages ==
  { PackageFile(c, m, TRUE) :
      c \in {NoCenter, <<484, 4576, 14>>}, m \in {NoMinzoom, 10} }

VARIABLES
  directory,                \* the mbtiles directory: "present", "absent" or
                            \* "denied" (absent, and it cannot be created)
  fs,                       \* the files of the directory: file name -> file
  jobs,                     \* download jobs: builder counters, thread, poller
  popups,                   \* open ConfirmPopups, a bag of the requests bound
  status_message,           \* MapViewScreen.status_message
  status_bar,               \* the status bar: "shown" or "hidden"
  clean_timers,             \* pending Clock events of _clean_status_message
  uncaught,                 \* the exception that ended the UI loop, or "none"
  lat, lon, zoom,           \* MapView.lat, .lon, .zoom
  animated_latlon_property, \* <<lat, lon>>
  animated_zoom_property,
  anims,                    \* animations running on the map view, oldest first
  map_source,               \* "online", or the paths of the composite source
  nAnimCalls,               \* calls of animated_center_on so far
  gps,                      \* plyer gps: "unsupported", "idle", "on", "off"
  gps_marker,               \* Controller.gps_marker: None or a marker
  markers,                  \* the markers on the map view, in the order added
  call                      \* a call of a pure function: input and result

vars ==
  <<directory, fs, jobs, popups, status_message, status_bar, clean_timers,
    uncaught, lat, lon, zoom, animated_latlon_property,
    animated_zoom_property, anims, map_source, nAnimCalls, gps, gps_marker,
    markers, call>>

dlVars == <<directory, fs, jobs, popups>>

statusVars == <<status_message, status_bar, clean_timers>>

gpsVars == <<gps, gps_marker, markers>>

viewVars ==
  <<lat, lon, zoom, animated_latlon_property, animated_zoom_property, anims,
    map_source, nAnimCalls>>

\* ------------------------------------------------ the fetch thread

Alive(job) == job.pc # "dead"

\* Thread(target=mb.run, kwargs={'force': False}) on a fresh MBTilesBuilder:
\* rendered = 0, nbtiles = 0 until run() has counted the coverage.
NewJob(filepath, bbox, zoomlevels) ==
  [filepath |-> filepath, bbox |-> bbox, zoomlevels |-> zoomlevels,
   rendered |-> 0, nbtiles |-> 0, pc |-> "start",
   scheduled |-> TRUE, sawDead |-> FALSE]

\* The metadata MBTilesBuilder.run writes: minzoom = zoomlevels[0],
\* center = "lon,lat,middlezoom" of the coverage.
BuiltCenter(bbox, zoomlevels) ==
  << bbox[1] + (bbox[3] - bbox[1]) \div 2,
     bbox[2] + (bbox[4] - bbox[2]) \div 2,
     zoomlevels[1] + (zoomlevels[2] - zoomlevels[1] + 1) \div 2 >>

\* The number of tiles of a coverage (MBTilesBuilder.add_coverage fills the
\* tile list from bbox and zoomlevels): the world coverage is the largest,
\* a city's is smaller.
CountTiles(bbox, zoomlevels) ==
  IF bbox = WORLD_BBOX THEN MaxTiles ELSE MaxTiles - 1

\* run(force=False) starts: an existing file means nothing to do; otherwise
\* the tiles of the coverage are counted.
FetchBegin(j) ==
  /\ j \in 1..Len(jobs)
  /\ jobs[j].pc = "start"
  /\ IF fs[jobs[j].filepath].exists
       THEN jobs' = [jobs EXCEPT ![j].pc = "dead"]
       ELSE jobs' = [jobs EXCEPT
                       ![j].nbtiles = CountTiles(jobs[j].bbox,
                                                 jobs[j].zoomlevels),
                       ![j].pc = "gather"]
  /\ UNCHANGED <<directory, fs, popups, statusVars, uncaught, viewVars, gpsVars, call>>

\* one tile fetched and stored
FetchTile(j) ==
  /\ j \in 1..Len(jobs)
  /\ jobs[j].pc = "gather"
  /\ jobs[j].rendered < jobs[j].nbtiles
  /\ jobs' = [jobs EXCEPT ![j].rendered = @ + 1]
  /\ UNCHANGED <<directory, fs, popups, statusVars, uncaught, viewVars, gpsVars, call>>

\* mb.run called by download_for_offline itself, with no Thread around it:
\* an exception while fetching a tile reaches the UI loop.
FetchFail_on_ui_thread(j) ==
  /\ j \in 1..Len(jobs)
  /\ jobs[j].pc = "gather"
  /\ jobs[j].rendered < jobs[j].nbtiles
  /\ jobs' = [jobs EXCEPT ![j].pc = "dead"]
  /\ uncaught' = "DownloadError"
  /\ UNCHANGED <<directory, fs, popups, statusVars, viewVars, gpsVars, call>>

\* an exception while fetching a tile ends the thread, and only the thread
FetchFail(j) ==
  /\ j \in 1..Len(jobs)
  /\ jobs[j].pc = "gather"
  /\ jobs[j].rendered < jobs[j].nbtiles
  /\ jobs' = [jobs EXCEPT ![j].pc = "dead"]
  /\ UNCHANGED <<directory, fs, popups, statusVars, uncaught, viewVars, gpsVars, call>>

\* every tile is there: the package file is created and filled
FetchPackage(j) ==
  /\ j \in 1..Len(jobs)
  /\ jobs[j].pc = "gather"
  /\ jobs[j].rendered = jobs[j].nbtiles
  /\ fs' = [fs EXCEPT ![jobs[j].filepath] =
              PackageFile(BuiltCenter(jobs[j].bbox, jobs[j].zoomlevels),
                          jobs[j].zoomlevels[1], FALSE)]
  /\ jobs' = [jobs EXCEPT ![j].pc = "package"]
  /\ UNCHANGED <<directory, popups, statusVars, uncaught, viewVars, gpsVars, call>>

\* the package is written and run() returns
FetchDone(j) ==
  /\ j \in 1..Len(jobs)
  /\ jobs[j].pc = "package"
  /\ fs' = [fs EXCEPT ![jobs[j].filepath] =
              IF @.exists THEN [@ EXCEPT !.complete = TRUE]
              ELSE PackageFile(BuiltCenter(jobs[j].bbox, jobs[j].zoomlevels),
                               jobs[j].zoomlevels[1], TRUE)]
  /\ jobs' = [jobs EXCEPT ![j].pc = "dead"]
  /\ UNCHANGED <<directory, popups, statusVars, uncaught, viewVars, gpsVars, call>>

\* ------------------------------------------------------- status bar

\* the lifetime update_status_message gives a message by default, and the
\* one its callers ask for, in seconds
DEFAULT_LIFETIME == 3
LONG_LIFETIME == 10

NoMessage == <<"">>

\* A pending Clock event of _clean_status_message: the text of the update
\* that scheduled it, its timeout and what is left of it.
CleanTimer(text, lifetime) ==
  [text |-> text, lifetime |-> lifetime, left |-> lifetime]

\* update_status_message with Clock.unschedule forgotten: the events the
\* earlier updates scheduled stay pending.
update_without_unschedule(text, lifetime) ==
  /\ status_bar' = "shown"
  /\ status_message' = text
  /\ clean_timers' = Append(clean_timers, CleanTimer(text, lifetime))

\* MapViewScreen.update_status_message(text, lifetime): the bar is shown,
\* the text set, every pending event of _clean_status_message unscheduled
\* and one scheduled after lifetime.
update_status_message(text, lifetime) ==
  /\ status_bar' = "shown"
  /\ status_message' = text
  /\ clean_timers' = <<CleanTimer(text, lifetime)>>

\* One second passes on the Clock: an event that is due is run first.
Tick ==
  /\ clean_timers # <<>>
  /\ \A i \in 1..Len(clean_timers) : clean_timers[i].left > 0
  /\ clean_timers' =
       [i \in 1..Len(clean_timers) |->
          [clean_timers[i] EXCEPT !.left = @ - 1]]
  /\ UNCHANGED <<dlVars, status_message, status_bar, uncaught, viewVars,
                 gpsVars, call>>

\* MapViewScreen._clean_status_message, run by the Clock for a due event
\* (a schedule_once event runs once): the text is emptied, the bar hidden.
CleanStatusMessage ==
  /\ \E i \in 1..Len(clean_timers) :
       /\ clean_timers[i].left = 0
       /\ clean_timers' =
            SubSeq(clean_timers, 1, i - 1)
              \o SubSeq(clean_timers, i + 1, Len(clean_timers))
  /\ status_message' = NoMessage
  /\ status_bar' = "hidden"
  /\ UNCHANGED <<dlVars, uncaught, viewVars, gpsVars, call>>

\* --------------------------------------------- download orchestration

\* download_for_offline(filepath, bbox, zoomlevels, delete): os.remove raises
\* OSError on a missing file, before anything is started.
download_for_offline(filepath, bbox, zoomlevels, delete) ==
  IF delete /\ ~fs[filepath].exists
    THEN /\ uncaught' = "OSError"
         /\ UNCHANGED <<fs, jobs>>
    ELSE /\ fs' = IF delete THEN [fs EXCEPT ![filepath] = NoFile] ELSE fs
         /\ jobs' = Append(jobs, NewJob(filepath, bbox, zoomlevels))
         /\ UNCHANGED uncaught

\* prepare_download_for_offline2 with the return after the popup forgotten:
\* the popup opens and the download starts all the same.
prepare2_without_return(filename, bbox, zoomlevels) ==
  IF directory = "denied"
    THEN /\ uncaught' = "OSError"
         /\ UNCHANGED <<dlVars, statusVars>>
    ELSE /\ directory' = "present"
         /\ popups' = IF fs[filename].exists
                        THEN popups (+) SetToBag({[filepath |-> filename,
                                                   bbox |-> bbox,
                                                   zoomlevels |-> zoomlevels]})
                        ELSE popups
         /\ fs' = fs
         /\ jobs' = Append(jobs, NewJob(filename, bbox, zoomlevels))
         /\ IF fs[filename].exists
              THEN update_status_message(
                     <<"File already exists", filename>>, LONG_LIFETIME)
              ELSE UNCHANGED statusVars
         /\ UNCHANGED uncaught

\* prepare_download_for_offline2(filename, bbox, zoomlevels): os.makedirs
\* raises OSError when the directory cannot be created.
prepare_download_for_offline2(filename, bbox, zoomlevels) ==
  IF directory = "denied"
    THEN /\ uncaught' = "OSError"
         /\ UNCHANGED <<dlVars, statusVars>>
    ELSE /\ directory' = "present"
         /\ IF fs[filename].exists
              THEN /\ popups' = popups (+) SetToBag({[filepath |-> filename,
                                                       bbox |-> bbox,
                                                       zoomlevels |-> zoomlevels]})
                   /\ update_status_message(
                        <<"File already exists", filename>>, LONG_LIFETIME)
                   /\ UNCHANGED <<fs, jobs, uncaught>>
              ELSE /\ download_for_offline(filename, bbox, zoomlevels, FALSE)
                   /\ UNCHANGED <<popups, statusVars>>

\* what the UI can take on: the loop is running, and the bounds leave room
\* for whatever the handler may start
UiRuns == uncaught = "none"

RoomToDownload == Len(jobs) < MaxJobs /\ BagCardinality(popups) < MaxPopups

\* download_world_map()
DownloadWorldMap ==
  /\ UiRuns
  /\ RoomToDownload
  /\ prepare_download_for_offline2(
       WorldFile, WORLD_BBOX, <<WORLD_MIN_ZOOM, WORLD_MAX_ZOOM>>)
  /\ UNCHANGED <<viewVars, gpsVars, call>>

\* the user answers yes in a popup bound to request p: the on_yes lambda of
\* prepare_download_for_offline2; the popup closes
OnYes(p) ==
  /\ UiRuns
  /\ BagIn(p, popups)
  /\ Len(jobs) < MaxJobs
  /\ download_for_offline(p.filepath, p.bbox, p.zoomlevels, TRUE)
  /\ popups' = popups (-) SetToBag({p})
  /\ UNCHANGED <<directory, statusVars, viewVars, gpsVars, call>>

\* the user answers no: the popup closes
OnNo(p) ==
  /\ UiRuns
  /\ BagIn(p, popups)
  /\ popups' = popups (-) SetToBag({p})
  /\ UNCHANGED <<directory, fs, jobs, statusVars, uncaught, viewVars,
                 gpsVars, call>>

\* probe_mb_tiles_builder_thread writing the counter it reports when the
\* thread is dead (mb.rendered = mb.nbtiles) instead of only printing it.
probe_fixing_up_rendered(j) ==
  /\ update_status_message(
       IF Alive(jobs[j])
         THEN <<"Downloading tiles", jobs[j].rendered, jobs[j].nbtiles>>
         ELSE <<"Downloading tiles", jobs[j].nbtiles, jobs[j].nbtiles>>,
       LONG_LIFETIME)
  /\ jobs' = IF Alive(jobs[j]) THEN jobs
             ELSE [jobs EXCEPT ![j].scheduled = FALSE, ![j].sawDead = TRUE,
                               ![j].rendered = jobs[j].nbtiles]

\* probe_mb_tiles_builder_thread publishing the counters as they are on
\* every tick, the dead thread's too.
probe_publishing_rendered(j) ==
  /\ update_status_message(
       <<"Downloading tiles", jobs[j].rendered, jobs[j].nbtiles>>,
       LONG_LIFETIME)
  /\ jobs' = IF Alive(jobs[j]) THEN jobs
             ELSE [jobs EXCEPT ![j].scheduled = FALSE, ![j].sawDead = TRUE]

\* probe_mb_tiles_builder_thread(mb, mb_run_thread), one tick of the
\* interval scheduled by download_for_offline: returning False unschedules.
\* On a dead thread the second update_status_message replaces the first,
\* text and clear event.
probe_mb_tiles_builder_thread(j) ==
  /\ update_status_message(
       IF Alive(jobs[j])
         THEN <<"Downloading tiles", jobs[j].rendered, jobs[j].nbtiles>>
         ELSE <<"Downloading tiles", jobs[j].nbtiles, jobs[j].nbtiles>>,
       LONG_LIFETIME)
  /\ jobs' = IF Alive(jobs[j]) THEN jobs
             ELSE [jobs EXCEPT ![j].scheduled = FALSE, ![j].sawDead = TRUE]

Probe(j) ==
  /\ UiRuns
  /\ j \in 1..Len(jobs)
  /\ jobs[j].scheduled
  /\ probe_mb_tiles_builder_thread(j)
  /\ UNCHANGED <<directory, fs, popups, uncaught, viewVars, gpsVars, call>>

\* ------------------------------------------------ viewport animation

\* Animation._calculate at progress k/Frames: a * (1 - t) + b * t
Interp(a, b, k) == a + ((b - a) * k) \div Frames

\* on_animated_zoom_property(instance, zoom): self.zoom = int(zoom)
on_animated_zoom_property(z) == ToInt(z)

\* on_animated_latlon_property(instance, coordinate): center_on(lat, lon)
on_animated_latlon_property(coordinate) == <<coordinate[1], coordinate[2]>>

\* animated_center_on(latitude, longitude): the zoom-out and the pan start
\* now (stage 1, in parallel) from the properties' current values; the zoom
\* back to initial_zoom (stage 2) is started when stage 1 completes.
\* Animation.start stops no other animation running on the widget.
\* chain, base_zoom and by only record how the transition came about: the
\* handlers that called since the view was last at rest, the zoom it had then.
animated_center_on(latitude, longitude, by) ==
  /\ anims' = Append(anims,
       [stage |-> 1, k |-> 0,
        zfrom |-> animated_zoom_property,
        llfrom |-> animated_latlon_property,
        target |-> <<latitude, longitude>>,
        initial_zoom |-> zoom,
        chain |-> IF anims = <<>> THEN <<by.handler>>
                  ELSE Append(anims[Len(anims)].chain, by.handler),
        base_zoom |-> IF anims = <<>> THEN zoom
                      ELSE anims[Len(anims)].base_zoom,
        by |-> by])
  /\ nAnimCalls' = nAnimCalls + 1

\* The view as one frame of one animation leaves it. A Kivy property
\* dispatches its observer only when its value changes.
SetZoomProp(st, z) ==
  IF z = st.zp THEN st
  ELSE [st EXCEPT !.zp = z, !.zoom = on_animated_zoom_property(z)]

SetLatLonProp(st, ll) ==
  IF ll = st.llp THEN st
  ELSE [st EXCEPT !.llp = ll,
                  !.lat = on_animated_latlon_property(ll)[1],
                  !.lon = on_animated_latlon_property(ll)[2]]

StepView(a, st) ==
  IF a.stage = 1
    THEN SetLatLonProp(
           SetZoomProp(st, Interp(a.zfrom, FP(ZOOM_OUT), a.k + 1)),
           << Interp(a.llfrom[1], a.target[1], a.k + 1),
              Interp(a.llfrom[2], a.target[2], a.k + 1) >>)
    ELSE SetZoomProp(st, Interp(a.zfrom, FP(a.initial_zoom), a.k + 1))

\* The sequence built with the zoom back left out (anim += forgotten): the
\* animation ends when stage 1 completes.
StepAnim_without_zoom_back(a, st2) ==
  IF a.k + 1 < Frames THEN [a EXCEPT !.k = a.k + 1]
  ELSE [a EXCEPT !.stage = 3, !.k = 0, !.zfrom = st2.zp]

\* The animation after its frame: stage 2 captures the zoom property as the
\* frame that completed stage 1 left it.
StepAnim(a, st2) ==
  IF a.k + 1 < Frames THEN [a EXCEPT !.k = a.k + 1]
  ELSE [a EXCEPT !.stage = a.stage + 1, !.k = 0, !.zfrom = st2.zp]

\* One clock frame: every running animation advances, oldest first.
RECURSIVE StepAll(_, _, _)
StepAll(as, st, acc) ==
  IF as = <<>> THEN [st |-> st, keep |-> acc.keep, ended |-> acc.ended]
  ELSE LET a == Head(as)
           st2 == StepView(a, st)
           a2 == StepAnim(a, st2)
       IN StepAll(Tail(as), st2,
                  IF a2.stage > 2
                    THEN [keep |-> acc.keep, ended |-> Append(acc.ended, a)]
                    ELSE [keep |-> Append(acc.keep, a2), ended |-> acc.ended])

AnimationFrame ==
  /\ UiRuns
  /\ anims # <<>>
  /\ LET r == StepAll(anims,
                      [zp |-> animated_zoom_property,
                       llp |-> animated_latlon_property,
                       zoom |-> zoom, lat |-> lat, lon |-> lon],
                      [keep |-> <<>>, ended |-> <<>>])
     IN /\ anims' = r.keep
        /\ animated_zoom_property' = r.st.zp
        /\ animated_latlon_property' = r.st.llp
        /\ zoom' = r.st.zoom
        /\ lat' = r.st.lat
        /\ lon' = r.st.lon
  /\ UNCHANGED <<dlVars, statusVars, uncaught, map_source, nAnimCalls, gpsVars, call>>

RoomToAnimate == nAnimCalls < MaxAnimCalls

\* ------------------------------------------------------ load_mbtiles

\* MapViewApp.mbtiles_paths: glob of *.mbtiles in the directory
mbtiles_paths == {f \in Files : fs[f].exists}

\* CustomMapView.load_mbtiles(mbtiles): without a "center" key latitude and
\* longitude are unbound at the call of animated_center_on
\* (UnboundLocalError), after map_source has been replaced.
load_mbtiles(mbtiles) ==
  LET metadata == fs[mbtiles]
      min_zoom == IF metadata.minzoom = NoMinzoom THEN OFFLINE_MIN_ZOOM
                  ELSE metadata.minzoom
  IN /\ map_source' = [kind |-> "composite", paths |-> mbtiles_paths]
     /\ IF metadata.center # NoCenter
          THEN /\ animated_center_on(
                    FP(metadata.center[2]), FP(metadata.center[1]),
                    [handler |-> "load_mbtiles", min_zoom |-> min_zoom])
               /\ zoom' = min_zoom
               /\ UNCHANGED uncaught
          ELSE /\ uncaught' = "UnboundLocalError"
               /\ UNCHANGED <<anims, nAnimCalls, zoom>>

\* Controller.load_mbtiles, on a name of the offline maps spinner
\* (OfflineMapsScreen.available_offline_maps)
LoadMbtiles(mbtiles) ==
  /\ UiRuns
  /\ RoomToAnimate
  /\ mbtiles \in mbtiles_paths
  /\ load_mbtiles(mbtiles)
  /\ UNCHANGED <<dlVars, statusVars, gpsVars, call, lat, lon,
                 animated_latlon_property, animated_zoom_property>>

\* Controller.load_default_map_source
LoadDefaultMapSource ==
  /\ UiRuns
  /\ map_source.kind # "online"
  /\ map_source' = [kind |-> "online"]
  /\ UNCHANGED <<dlVars, statusVars, uncaught, gpsVars, call, lat, lon, zoom,
                 animated_latlon_property, animated_zoom_property, anims,
                 nAnimCalls>>

\* ---------------------------------------------- composite tile source

\* MBTilesCompositeMapSource(mbtiles_paths) answers the tile requests of
\* the map view once load_mbtiles has made it the map source. A package, as
\* the source reads it: its path, zoom range and bounding box (min_lon,
\* min_lat, max_lon, max_lat) in degrees.
TilePackage(path, zoomRange, boundingBox) ==
  [path |-> path, zoomRange |-> zoomRange, boundingBox |-> boundingBox]

\* The packages a directory can hold: the world at the low zooms, a region
\* that is the north-east quarter, and a second region inside it.
TilePackages ==
  { TilePackage("World.mbtiles", <<0, 1>>, <<-180, -90, 180, 90>>),
    TilePackage("Region.mbtiles", <<1, 2>>, <<0, 0, 180, 90>>),
    TilePackage("Lyon.mbtiles", <<2, 2>>, <<0, 45, 90, 90>>) }

\* The footprint of tile <<z, x, y>>: the world is cut in 2^z columns and
\* 2^z rows, row 0 in the north.
Footprint(tile) ==
  LET n == Pow(2, tile[1])
  IN << -180 + (tile[2] * 360) \div n,
        90 - ((tile[3] + 1) * 180) \div n,
        -180 + ((tile[2] + 1) * 360) \div n,
        90 - (tile[3] * 180) \div n >>

BoxContains(outer, inner) ==
  /\ outer[1] <= inner[1] /\ outer[2] <= inner[2]
  /\ inner[3] <= outer[3] /\ inner[4] <= outer[4]

\* the package's zoom range contains z and its box the tile's footprint
Covers(package, tile) ==
  /\ package.zoomRange[1] <= tile[1] /\ tile[1] <= package.zoomRange[2]
  /\ BoxContains(package.boundingBox, Footprint(tile))

\* readTile(z, x, y) of a package, and the tile of the live source: the
\* bytes are told apart by where they come from
ReadTile(package, tile) == <<package.path, tile>>

LiveTile(tile) == <<"live", tile>>

\* resolve with the list walked to its end: the last package that
\* qualifies wins.
RECURSIVE resolve_last_wins(_, _, _)
resolve_last_wins(packages, tile, queried) ==
  IF packages = <<>>
    THEN [source |-> "live", bytes |-> LiveTile(tile), queried |-> queried]
  ELSE LET package == packages[Len(packages)]
       IN IF Covers(package, tile)
            THEN [source |-> package.path,
                  bytes |-> ReadTile(package, tile),
                  queried |-> Append(queried, package.path)]
            ELSE resolve_last_wins(SubSeq(packages, 1, Len(packages) - 1),
                                   tile, queried)

\* resolve(z, x, y): the packages are tried in list order and the first
\* that qualifies is read; no other is; the live source answers when none
\* qualifies.
RECURSIVE resolve(_, _, _)
resolve(packages, tile, queried) ==
  IF packages = <<>>
    THEN [source |-> "live", bytes |-> LiveTile(tile), queried |-> queried]
  ELSE IF Covers(Head(packages), tile)
    THEN [source |-> Head(packages).path,
          bytes |-> ReadTile(Head(packages), tile),
          queried |-> Append(queried, Head(packages).path)]
  ELSE resolve(Tail(packages), tile, queried)

\* the tiles the map view asks for
Tiles ==
  { <<z, x, y>> : z \in 0..MaxTileZoom,
                  x \in 0..(Pow(2, MaxTileZoom) - 1),
                  y \in 0..(Pow(2, MaxTileZoom) - 1) }

\* The orders in which the directory listing can give the packages it
\* holds: every sequence of distinct packages.
Listings ==
  { l \in UNION { [1..n -> TilePackages] : n \in 0..Cardinality(TilePackages) } :
      \A i, j \in 1..Len(l) : i # j => l[i] # l[j] }

ResolveCall(packages, tile) ==
  [fn |-> "resolve", packages |-> packages, tile |-> tile, out |-> NoResult]

ResolveTile ==
  /\ call.fn = "resolve"
  /\ call.out = NoResult
  /\ call' = [call EXCEPT !.out = resolve(call.packages, call.tile, <<>>)]
  /\ UNCHANGED <<dlVars, statusVars, uncaught, viewVars, gpsVars>>

\* ------------------------------------------------- location resolver

\* geolocator.geocode(text): a place, None, or GeocoderServiceError
GeocodeResults == Places \cup {[type |-> "None"], [type |-> "ServiceError"]}

\* CustomMapView.search(text)
search(location) ==
  IF location.type \in {"None", "ServiceError"}
    THEN UNCHANGED <<anims, nAnimCalls>>
    ELSE animated_center_on(FP(location.latitude), FP(location.longitude),
                            [handler |-> "search", min_zoom |-> NoMinzoom])

\* the search the UI runs on a text: it writes no status message itself
Search ==
  /\ UiRuns
  /\ RoomToAnimate
  /\ \E location \in GeocodeResults : search(location)
  /\ UNCHANGED <<dlVars, statusVars, uncaught, gpsVars, call, lat, lon, zoom,
                 animated_latlon_property, animated_zoom_property, map_source>>

\* geopy_bbox_to_bbox taking the geocoder's box for (min_lat, min_lon,
\* max_lat, max_lon), the order of a pair of corners.
geopy_bbox_as_corners(geopy_bbox) ==
  LET min_lat == float(geopy_bbox[1])
      min_lon == float(geopy_bbox[2])
      max_lat == float(geopy_bbox[3])
      max_lon == float(geopy_bbox[4])
  IN <<min_lon, min_lat, max_lon, max_lat>>

\* geopy_bbox_to_bbox: (min_lat, max_lat, min_lon, max_lon), each a numeric
\* string made a float, to (min_lon, min_lat, max_lon, max_lat)
geopy_bbox_to_bbox(geopy_bbox) ==
  LET min_lat == float(geopy_bbox[1])
      max_lat == float(geopy_bbox[2])
      min_lon == float(geopy_bbox[3])
      max_lon == float(geopy_bbox[4])
  IN <<min_lon, min_lat, max_lon, max_lat>>

\* A call of geopy_bbox_to_bbox on its own: the box a place has (box), the
\* strings the geocoder hands over for it (geopy_bbox), the result.
BboxCall(box) ==
  [fn |-> "geopy_bbox_to_bbox", box |-> box, geopy_bbox |-> RawBox(box),
   out |-> NoResult]

ConvertBbox ==
  /\ call.fn = "geopy_bbox_to_bbox"
  /\ call.out = NoResult
  /\ call' = [call EXCEPT !.out = geopy_bbox_to_bbox(call.geopy_bbox)]
  /\ UNCHANGED <<dlVars, statusVars, uncaught, viewVars, gpsVars>>

\* prepare_download_for_offline1 with the city test placed after the move
\* to the location: a place that is not a city starts the transition.
prepare1_city_test_after_move(location) ==
  CASE location.type = "ServiceError" ->
         /\ uncaught' = "GeocoderServiceError"
         /\ UNCHANGED <<dlVars, statusVars, anims, nAnimCalls>>
    [] location.type = "None" ->
         /\ UNCHANGED <<dlVars, statusVars, uncaught, anims, nAnimCalls>>
    [] location.type \notin {"ServiceError", "None", "city"} ->
         /\ animated_center_on(FP(location.latitude), FP(location.longitude),
                               [handler |-> "prepare1", min_zoom |-> NoMinzoom])
         /\ UNCHANGED <<dlVars, statusVars, uncaught>>
    [] OTHER ->
         /\ animated_center_on(FP(location.latitude), FP(location.longitude),
                               [handler |-> "prepare1", min_zoom |-> NoMinzoom])
         /\ prepare_download_for_offline2(
              Filename(location.city),
              geopy_bbox_to_bbox(location.boundingbox),
              <<OFFLINE_MIN_ZOOM, OFFLINE_MAX_ZOOM>>)

\* prepare_download_for_offline1(text): geocode is not guarded here, so a
\* GeocoderServiceError leaves the handler.
prepare_download_for_offline1(location) ==
  CASE location.type = "ServiceError" ->
         /\ uncaught' = "GeocoderServiceError"
         /\ UNCHANGED <<dlVars, statusVars, anims, nAnimCalls>>
    [] location.type = "None" ->
         /\ UNCHANGED <<dlVars, statusVars, uncaught, anims, nAnimCalls>>
    [] location.type \notin {"ServiceError", "None", "city"} ->
         /\ UNCHANGED <<dlVars, statusVars, uncaught, anims, nAnimCalls>>
    [] OTHER ->
         /\ animated_center_on(FP(location.latitude), FP(location.longitude),
                               [handler |-> "prepare1", min_zoom |-> NoMinzoom])
         /\ prepare_download_for_offline2(
              Filename(location.city),
              geopy_bbox_to_bbox(location.boundingbox),
              <<OFFLINE_MIN_ZOOM, OFFLINE_MAX_ZOOM>>)

PrepareDownload1 ==
  /\ UiRuns
  /\ RoomToAnimate
  /\ RoomToDownload
  /\ \E location \in GeocodeResults : prepare_download_for_offline1(location)
  /\ UNCHANGED <<lat, lon, zoom, animated_latlon_property,
                 animated_zoom_property, map_source, gpsVars, call>>

\* Controller.on_search(text): the status bar says what is looked for
OnSearch ==
  /\ UiRuns
  /\ \E text \in {"Lyon", "Rue de Rivoli"} :
       update_status_message(<<"Looking for", text>>, DEFAULT_LIFETIME)
  /\ UNCHANGED <<dlVars, uncaught, viewVars, gpsVars, call>>

\* ---------------------------------------------------------------- gps

None == [id |-> 0]

\* GpsMarker(lat=latitude, lon=longitude): a new object, told from the
\* markers still referenced by its id
GpsMarker(latitude, longitude) ==
  [id |-> 1 + Len(markers), lat |-> latitude, lon |-> longitude]

\* What the sensor can report, in hundredths of a degree.
Locations == {<<4576, 484>>, <<4886, 234>>}

\* gps_not_found_message(): status bar and popup
gps_not_found_message ==
  update_status_message(<<"GPS not found.">>, DEFAULT_LIFETIME)

\* start_gps_localize(): gps.configure and gps.start raise
\* NotImplementedError on a platform without the facade
start_gps_localize ==
  IF gps = "unsupported"
    THEN /\ gps_not_found_message
         /\ UNCHANGED gps
    ELSE /\ update_status_message(<<"Waiting for GPS location...">>,
                                  LONG_LIFETIME)
         /\ gps' = "on"

StartGps ==
  /\ UiRuns
  /\ start_gps_localize
  /\ UNCHANGED <<dlVars, uncaught, viewVars, gps_marker, markers, call>>

\* stop_gps_localize with remove_marker forgotten: only the reference is
\* dropped.
stop_without_remove_marker ==
  IF gps = "unsupported"
    THEN /\ gps_not_found_message
         /\ UNCHANGED gpsVars
    ELSE /\ gps' = IF gps = "idle" THEN "idle" ELSE "off"
         /\ markers' = markers
         /\ gps_marker' = None
         /\ UNCHANGED statusVars

\* stop_gps_localize(): when gps.stop raises the marker is left alone
stop_gps_localize ==
  IF gps = "unsupported"
    THEN /\ gps_not_found_message
         /\ UNCHANGED gpsVars
    ELSE /\ gps' = IF gps = "idle" THEN "idle" ELSE "off"
         /\ markers' = IF gps_marker # None
                         THEN SelectSeq(markers,
                                        LAMBDA m : m.id # gps_marker.id)
                         ELSE markers
         /\ gps_marker' = None
         /\ UNCHANGED statusVars

StopGps ==
  /\ UiRuns
  /\ stop_gps_localize
  /\ UNCHANGED <<dlVars, uncaught, viewVars, call>>

\* on_location(lat=latitude, lon=longitude): the marker is created and added
\* to the map on the first report and moved on the later ones; the markers
\* on the map are the objects themselves, so moving gps_marker moves it there.
on_location(latitude, longitude) ==
  /\ IF gps_marker = None
       THEN /\ gps_marker' = GpsMarker(latitude, longitude)
            /\ markers' = Append(markers, GpsMarker(latitude, longitude))
       ELSE /\ gps_marker' = [gps_marker EXCEPT !.lat = latitude,
                                                !.lon = longitude]
            /\ markers' =
                 [i \in 1..Len(markers) |->
                    IF markers[i].id = gps_marker.id
                      THEN [markers[i] EXCEPT !.lat = latitude,
                                              !.lon = longitude]
                      ELSE markers[i]]
  /\ animated_center_on(FP(latitude), FP(longitude),
                        [handler |-> "on_location", min_zoom |-> NoMinzoom])
  /\ update_status_message(<<"Latitude", latitude, longitude>>,
                           LONG_LIFETIME)

\* a location event of the sensor: the callbacks are configured by the
\* first start, and a report on its way when the sensor is stopped still
\* arrives
OnLocation ==
  /\ UiRuns
  /\ RoomToAnimate
  /\ gps \in {"on", "off"}
  /\ \E l \in Locations : on_location(l[1], l[2])
  /\ UNCHANGED <<dlVars, uncaught, lat, lon, zoom, animated_latlon_property,
                 animated_zoom_property, map_source, gps, call>>

\* on_status(stype, status)
OnStatus ==
  /\ UiRuns
  /\ gps \in {"on", "off"}
  /\ update_status_message(<<"type", "provider-enabled", "gps">>,
                           LONG_LIFETIME)
  /\ UNCHANGED <<dlVars, uncaught, viewVars, gpsVars, call>>

\* ------------------------------------------------------ specification

NoCall == [fn |-> "none"]

\* The application right after construction, on a device whose mbtiles
\* directory is in one of `directories` and whose gps facade is in one of
\* `platforms`: only a directory that exists can hold a package.
Boot(directories, platforms) ==
  /\ directory \in directories
  /\ \E lyon \in ForeignPackages \cup {NoFile} :
       /\ directory # "present" => lyon = NoFile
       /\ fs = [f \in Files |-> IF f = "Lyon.mbtiles" THEN lyon ELSE NoFile]
  /\ jobs = <<>>
  /\ popups = EmptyBag
  /\ status_message = NoMessage
  /\ status_bar = "hidden"
  /\ clean_timers = <<>>
  /\ uncaught = "none"
  /\ lat = FP(DEFAULT_LAT)
  /\ lon = FP(DEFAULT_LON)
  /\ zoom = DEFAULT_ZOOM
  /\ animated_latlon_property = <<FP(DEFAULT_LAT), FP(DEFAULT_LON)>>
  /\ animated_zoom_property = FP(DEFAULT_ZOOM)
  /\ anims = <<>>
  /\ map_source = [kind |-> "online"]
  /\ nAnimCalls = 0
  /\ gps \in platforms
  /\ gps_marker = None
  /\ markers = <<>>

Init == Boot({"present", "absent", "denied"}, {"idle"}) /\ call = NoCall

\* The same on any platform, with the directory in place.
InitGps == Boot({"present"}, {"idle", "unsupported"}) /\ call = NoCall

\* The coordinates, in hundredths, the boxes of the calls are drawn from:
\* both signs, zero, a value below one degree.
BoxCoords == {-17900, -50, 0, 484, 4576}

\* A call of geopy_bbox_to_bbox on any box of these coordinates.
InitBbox ==
  /\ Boot({"present"}, {"idle"})
  /\ \E a, b, c, d \in BoxCoords : call = BboxCall(<<a, b, c, d>>)

\* The download requests, the fetch threads and the pollers: every step
\* that writes fs, jobs or popups.
NextFetch ==
  \/ DownloadWorldMap
  \/ PrepareDownload1
  \/ \E p \in BagToSet(popups) : OnYes(p)
  \/ \E p \in BagToSet(popups) : OnNo(p)
  \/ \E j \in 1..MaxJobs : FetchBegin(j)
  \/ \E j \in 1..MaxJobs : FetchTile(j)
  \/ \E j \in 1..MaxJobs : FetchFail(j)
  \/ \E j \in 1..MaxJobs : FetchPackage(j)
  \/ \E j \in 1..MaxJobs : FetchDone(j)
  \/ \E j \in 1..MaxJobs : Probe(j)

\* The same with the handlers that read the directory into the map source.
NextDownload ==
  \/ NextFetch
  \/ \E mbtiles \in Files : LoadMbtiles(mbtiles)
  \/ LoadDefaultMapSource

\* Every handler that writes the viewport, and the clock's animation frame.
NextView ==
  \/ Search
  \/ PrepareDownload1
  \/ \E mbtiles \in Files : LoadMbtiles(mbtiles)
  \/ LoadDefaultMapSource
  \/ AnimationFrame

\* The gps handlers and the animation frames their transitions need.
NextGps ==
  \/ StartGps
  \/ StopGps
  \/ OnLocation
  \/ OnStatus
  \/ AnimationFrame

\* The callers of update_status_message that start no transition, and the
\* Clock that runs the clear events.
NextStatus ==
  \/ OnSearch
  \/ StartGps
  \/ StopGps
  \/ OnStatus
  \/ DownloadWorldMap
  \/ \E j \in 1..MaxJobs : Probe(j)
  \/ Tick
  \/ CleanStatusMessage

Next ==
  \/ NextDownload
  \/ NextView
  \/ NextGps
  \/ NextStatus
  \/ ConvertBbox
  \/ ResolveTile

\* Requests, fetch threads and pollers alone: nothing else writes fs, jobs
\* or popups.
SpecFetch == Init /\ [][NextFetch]_vars

\* The download subsystem alone: the animation frames, which write only the
\* viewport, are left out.
SpecDownload == Init /\ [][NextDownload]_vars

\* The viewport alone: the fetch threads and the pollers, which never write
\* the viewport, are left out.
SpecView == Init /\ [][NextView]_vars

\* The gps handlers alone.
SpecGps == InitGps /\ [][NextGps]_vars

\* The status bar alone.
SpecStatus == InitGps /\ [][NextStatus]_vars

\* A tile request to the composite source of any listing of the
\* directory.
InitResolve ==
  /\ Boot({"present"}, {"idle"})
  /\ \E l \in Listings, t \in Tiles :
       /\ t[2] < Pow(2, t[1]) /\ t[3] < Pow(2, t[1])
       /\ call = ResolveCall(l, t)

\* The composite source alone.
SpecResolve == InitResolve /\ [][ResolveTile]_vars

\* geopy_bbox_to_bbox alone.
SpecBbox == InitBbox /\ [][ConvertBbox]_vars

Spec == Init /\ [][Next]_vars

\* The clock runs every scheduled interval: each job's poller ticks again
\* and again for as long as it is scheduled and the UI loop runs.
LiveDownload == SpecDownload /\ \A j \in 1..MaxJobs : WF_vars(Probe(j))

\* ============================================================ claims

\* The requests the UI can make of prepare_download_for_offline2.
Requests ==
  { [filepath |-> WorldFile, bbox |-> WORLD_BBOX,
     zoomlevels |-> <<WORLD_MIN_ZOOM, WORLD_MAX_ZOOM>>] }
  \cup
  { [filepath |-> Filename(pl.city),
     bbox |-> geopy_bbox_to_bbox(pl.boundingbox),
     zoomlevels |-> <<OFFLINE_MIN_ZOOM, OFFLINE_MAX_ZOOM>>] :
      pl \in {q \in Places : q.type = "city"} }

JobsOn(f) == {j \in 1..Len(jobs) : jobs[j].filepath = f}

\* C1: a request (prepare_download_for_offline2) for a destination that
\* already exists opens the confirmation popup and starts nothing: the jobs
\* (threads and pollers) and the files are as before. An existing file is
\* removed, and a job is started on an existing path, only by the step in
\* which the user answers yes in a popup bound to that path.
C1_ConflictStartsNothing ==
  [][ /\ \A p \in Requests :
           ( /\ fs[p.filepath].exists
             /\ prepare_download_for_offline2(p.filepath, p.bbox, p.zoomlevels) )
           => ( /\ jobs' = jobs
                /\ fs' = fs
                /\ uncaught' = uncaught
                /\ CopiesIn(p, popups') = CopiesIn(p, popups) + 1 )
      /\ \A f \in Files :
           ( /\ fs[f].exists
             /\ \/ ~fs'[f].exists
                \/ /\ Len(jobs') > Len(jobs)
                   /\ jobs'[Len(jobs')].filepath = f )
           => \E p \in BagToSet(popups) : p.filepath = f /\ OnYes(p)
    ]_vars

\* C1 witness: a popup is open for an existing file, the status bar says so,
\* and no job was started on that path.
C1_Witness ==
  \E p \in BagToSet(popups) :
    /\ fs[p.filepath].exists
    /\ fs[p.filepath].complete
    /\ status_message = <<"File already exists", p.filepath>>
    /\ JobsOn(p.filepath) = {}

\* C2 (the claim as stated): at most one job whose fetch thread is alive
\* targets a given destination path.
C2_OneRunningJobPerPath ==
  \A i, j \in 1..Len(jobs) :
    (i # j /\ Alive(jobs[i]) /\ Alive(jobs[j]))
      => jobs[i].filepath # jobs[j].filepath

\* C3 (the claim as stated): the user's yes always ends in Started: whatever
\* the state of the path, no file is left at it, no exception leaves the
\* handler, and one more job is running with its poller scheduled.
C3_ForceAlwaysStarted ==
  [][ \A p \in BagToSet(popups) :
        OnYes(p) => ( /\ uncaught' = "none"
                      /\ Len(jobs') = Len(jobs) + 1
                      /\ jobs'[Len(jobs')].filepath = p.filepath
                      /\ Alive(jobs'[Len(jobs')])
                      /\ jobs'[Len(jobs')].scheduled
                      /\ ~fs'[p.filepath].exists )
    ]_vars

C4_CountersInRange ==
  /\ \A j \in 1..Len(jobs) :
       0 <= jobs[j].rendered /\ jobs[j].rendered <= jobs[j].nbtiles
  /\ status_message[1] = "Downloading tiles"
       => 0 <= status_message[2] /\ status_message[2] <= status_message[3]

\* C4: every job's counters satisfy 0 <= rendered <= nbtiles in every state,
\* so at every poll, and so does every progress the poller publishes; once
\* the fetch thread is dead, so from the poll that observes alive = false on,
\* it stays dead and rendered does not change.
C4_ProgressBounded ==
  /\ []C4_CountersInRange
  /\ [][ \A j \in 1..Len(jobs) :
           ~Alive(jobs[j]) =>
             ( /\ jobs'[j].rendered = jobs[j].rendered
               /\ jobs'[j].nbtiles = jobs[j].nbtiles
               /\ ~Alive(jobs'[j])
               /\ jobs[j].sawDead => jobs'[j].sawDead ) ]_vars

\* C4 witness: the poller has observed alive = false on a job that stopped
\* early, after at least one tile.
C4_Witness ==
  \E j \in 1..Len(jobs) :
    /\ jobs[j].sawDead
    /\ 0 < jobs[j].rendered
    /\ jobs[j].rendered < jobs[j].nbtiles

\* C5 (the claim as stated): a tick that finds the thread alive leaves the
\* poller scheduled, an unscheduled poller stays unscheduled, and once the
\* thread is dead the poller eventually observes it and is unscheduled.
C5_PollerLifecycle ==
  /\ [][ \A j \in 1..Len(jobs) :
           /\ (Probe(j) /\ Alive(jobs[j])) => jobs'[j].scheduled
           /\ ~jobs[j].scheduled => ~jobs'[j].scheduled ]_vars
  /\ \A j \in 1..MaxJobs :
       (j <= Len(jobs) /\ ~Alive(jobs[j]))
         ~> (j <= Len(jobs) /\ jobs[j].sawDead /\ ~jobs[j].scheduled)

\* C6 (the claim as stated): no path of the composite source belongs to a
\* job whose fetch thread is alive.
C6_NoRunningPackageLoaded ==
  map_source.kind = "composite" =>
    \A j \in 1..Len(jobs) :
      Alive(jobs[j]) => jobs[j].filepath \notin map_source.paths

\* The most recent call of animated_center_on still running.
Newest == anims[Len(anims)]

\* This step is the frame on which the view comes to rest.
ComesToRest == AnimationFrame /\ anims # <<>> /\ anims' = <<>>

\* The animation of a lone call: made at rest and not joined by another.
Lone(a) == anims = <<a>> /\ Len(a.chain) = 1

\* C7 (the claim as stated): when a second animated_center_on was called
\* while the first transition was in flight (neither by load_mbtiles, which
\* writes the zoom itself), the view comes to rest at the second call's
\* (lat, lon) with the zoom it had before the first transition began.
C7_SecondCallReplacesFirst ==
  [][ ( /\ ComesToRest
        /\ Len(Newest.chain) = 2
        /\ \A i \in 1..2 : Newest.chain[i] # "load_mbtiles" )
      => ( /\ lat' = Newest.target[1]
           /\ lon' = Newest.target[2]
           /\ zoom' = Newest.base_zoom )
    ]_vars

C8_StagesInOrder ==
  \A a \in {b \in {anims[i] : i \in 1..Len(anims)} :
              Lone(b) /\ b.by.handler # "load_mbtiles"} :
    /\ a.stage = 1 =>
         /\ animated_zoom_property = Interp(a.zfrom, FP(ZOOM_OUT), a.k)
         /\ animated_latlon_property =
              << Interp(a.llfrom[1], a.target[1], a.k),
                 Interp(a.llfrom[2], a.target[2], a.k) >>
         /\ zoom = ToInt(animated_zoom_property)
    /\ a.stage = 2 =>
         /\ animated_latlon_property = a.target
         /\ lat = a.target[1] /\ lon = a.target[2]
         /\ a.zfrom = FP(ZOOM_OUT)
         /\ animated_zoom_property = Interp(FP(ZOOM_OUT), FP(a.initial_zoom), a.k)
         /\ zoom = ToInt(animated_zoom_property)
    /\ a.initial_zoom = a.base_zoom

\* C8: a lone animated_center_on(lat, lon) (called at rest by a handler that
\* does not write the zoom itself, no other call before it ends) runs its
\* stages in order: through stage 1 the zoom property and the center move
\* together, frame by frame, toward 5 and (lat, lon); stage 2, the zoom back,
\* starts from exactly 5 with the center at (lat, lon); and on the frame that
\* ends the transition the center is (lat, lon) and the zoom is the zoom the
\* view had when the call was made.
C8_LoneTransition ==
  /\ []C8_StagesInOrder
  /\ [][ ( /\ ComesToRest
           /\ Lone(Newest)
           /\ Newest.by.handler # "load_mbtiles" )
         => ( /\ Newest.stage = 2
              /\ lat' = Newest.target[1]
              /\ lon' = Newest.target[2]
              /\ zoom' = Newest.initial_zoom
              /\ animated_zoom_property' = FP(Newest.initial_zoom) )
       ]_vars

\* C8 witness: one call was made, its transition has ended, and the view is
\* at the place searched for with the zoom it started from.
C8_Witness ==
  /\ anims = <<>>
  /\ nAnimCalls = 1
  /\ map_source.kind = "online"
  /\ \E pl \in Places : lat = FP(pl.latitude) /\ lon = FP(pl.longitude)
  /\ lat # FP(DEFAULT_LAT)
  /\ zoom = DEFAULT_ZOOM

\* C9 (the claim as stated): when the transition a load_mbtiles triggered,
\* alone, has run to completion, the zoom is the package's minzoom, or 12.
C9_LoadEndsAtMinZoom ==
  [][ ( /\ ComesToRest
        /\ Lone(Newest)
        /\ Newest.by.handler = "load_mbtiles" )
      => zoom' = Newest.by.min_zoom
    ]_vars

\* C10 (the claim as stated): loading a package without a "center" key
\* raises nothing, starts no transition and leaves the center where it was.
C10_LoadWithoutCenter ==
  [][ \A mbtiles \in Files :
        ( /\ fs[mbtiles].exists
          /\ fs[mbtiles].center = NoCenter
          /\ LoadMbtiles(mbtiles) )
        => ( /\ uncaught' = "none"
             /\ anims' = anims
             /\ lat' = lat /\ lon' = lon
             /\ animated_latlon_property' = animated_latlon_property )
    ]_vars

\* C11: prepare_download_for_offline1 on a text the geocoder does not find
\* (None) or finds with a tag other than "city" starts nothing: no job
\* (thread, poller), no file, no directory, no popup and no transition; and
\* whenever the handler starts a job, opens a popup, creates the directory or
\* starts a transition, the place it geocoded is a city.
C11_OnlyCitiesDownload ==
  [][ /\ \A location \in GeocodeResults :
           ( /\ location.type \notin {"city", "ServiceError"}
             /\ UiRuns
             /\ prepare_download_for_offline1(location) )
           => ( /\ jobs' = jobs
                /\ fs' = fs
                /\ directory' = directory
                /\ popups' = popups
                /\ anims' = anims )
      /\ ( /\ PrepareDownload1
           /\ \/ jobs' # jobs
              \/ popups' # popups
              \/ directory' # directory
              \/ anims' # anims )
         => \E location \in Places :
              /\ location.type = "city"
              /\ prepare_download_for_offline1(location)
    ]_vars

\* C11 witness: a download by place name was started for a city, with the
\* move to the city in flight; the place that is not a city left no job.
C11_Witness ==
  /\ Len(jobs) = 1
  /\ jobs[1].filepath = Filename("Lyon")
  /\ Alive(jobs[1])
  /\ anims # <<>>
  /\ Newest.by.handler = "prepare1"
  /\ Newest.target = <<FP(4576), FP(484)>>

\* C12 (the claim as stated): when the geocoder fails with a service error,
\* in the free-text search and in the download by place name alike, the
\* handler starts no transition and no download and the UI loop keeps
\* running.
C12_ServiceErrorSurfaced ==
  [][ ( /\ UiRuns
        /\ \/ search([type |-> "ServiceError"])
           \/ prepare_download_for_offline1([type |-> "ServiceError"])
        /\ UNCHANGED <<lat, lon, zoom, animated_latlon_property,
                       animated_zoom_property, map_source, gpsVars, call,
                       dlVars, statusVars>> )
      => ( /\ uncaught' = "none"
           /\ anims' = anims
           /\ jobs' = jobs )
    ]_vars

\* C13 (the claim as stated): a request (prepare_download_for_offline2)
\* made when the package directory does not exist and cannot be created is
\* answered with a result, not an exception, and starts no job.
C13_DeniedIsAResult ==
  [][ \A p \in Requests :
        ( /\ directory = "denied"
          /\ UiRuns
          /\ prepare_download_for_offline2(p.filepath, p.bbox, p.zoomlevels) )
        => ( /\ uncaught' = "none"
             /\ jobs' = jobs )
    ]_vars

\* C14: an exception inside a job's fetch ends that job's thread with
\* rendered < nbtiles and touches nothing else: the UI loop, the files, the
\* popups and every other job are as before. A tick of the poller of a dead
\* job observes it and unschedules that poller only; a tick on an alive
\* thread changes no job; and while the UI loop runs every scheduled poller
\* can tick, the dead job's as well as the others'.
C14_FetchFailureIsolated ==
  /\ [][ \A j \in 1..Len(jobs) :
           /\ FetchFail(j) =>
                /\ ~Alive(jobs'[j])
                /\ jobs'[j].rendered < jobs'[j].nbtiles
                /\ jobs'[j].scheduled = jobs[j].scheduled
                /\ \A i \in 1..Len(jobs) : i # j => jobs'[i] = jobs[i]
                /\ Len(jobs') = Len(jobs)
                /\ uncaught' = uncaught
                /\ fs' = fs /\ popups' = popups
           /\ (Probe(j) /\ ~Alive(jobs[j])) =>
                /\ jobs'[j].sawDead /\ ~jobs'[j].scheduled
                /\ jobs'[j].rendered = jobs[j].rendered
                /\ \A i \in 1..Len(jobs) : i # j => jobs'[i] = jobs[i]
                /\ uncaught' = uncaught
           /\ (Probe(j) /\ Alive(jobs[j])) => jobs' = jobs
       ]_vars
  /\ [](\A j \in 1..Len(jobs) :
          (jobs[j].scheduled /\ UiRuns) => ENABLED Probe(j))

\* C14 witness: the first job failed after a tile and its poller has seen it
\* and stopped, while the second job is still fetching with its poller
\* scheduled and the UI loop runs.
C14_Witness ==
  /\ Len(jobs) = 2
  /\ ~Alive(jobs[1]) /\ jobs[1].sawDead /\ ~jobs[1].scheduled
  /\ 0 < jobs[1].rendered /\ jobs[1].rendered < jobs[1].nbtiles
  /\ ~fs[jobs[1].filepath].exists
  /\ jobs[2].pc = "gather" /\ jobs[2].scheduled
  /\ UiRuns

\* C16: for every box (min_lat, max_lat, min_lon, max_lon) the geocoder
\* hands over, geopy_bbox_to_bbox answers (min_lon, min_lat, max_lon,
\* max_lat): each component of the box exactly once, with its value; no
\* input is refused; and a box with min <= max on each axis gives a box with
\* min_lon <= max_lon and min_lat <= max_lat.
C16_BboxReordered ==
  call.fn = "geopy_bbox_to_bbox" =>
    /\ call.out = NoResult => ENABLED ConvertBbox
    /\ call.out # NoResult =>
         /\ call.out = <<call.box[3], call.box[1], call.box[4], call.box[2]>>
         /\ (call.box[1] <= call.box[2] /\ call.box[3] <= call.box[4])
              => (call.out[1] <= call.out[3] /\ call.out[2] <= call.out[4])

\* C16 witness: a well-formed box west of Greenwich and north of the
\* equator, with a longitude below one degree, has been converted.
C16_Witness ==
  /\ call.fn = "geopy_bbox_to_bbox"
  /\ call.box = <<484, 4576, -17900, -50>>
  /\ call.out = <<-17900, 484, -50, 4576>>

\* The places in the list of the packages that qualify for the tile.
Qualifying(packages, tile) ==
  {i \in 1..Len(packages) : Covers(packages[i], tile)}

\* C15: for every listing and every tile, resolve answers with the bytes of
\* the package that comes first in the listing among those whose zoom range
\* contains z and whose box contains the tile, and with the live source's
\* tile, never an error, when none does; the packages read are packages that
\* cover the tile.
C15_FirstQualifyingWins ==
  call.fn = "resolve" =>
    /\ call.out = NoResult => ENABLED ResolveTile
    /\ call.out # NoResult =>
         LET Q == Qualifying(call.packages, call.tile)
         IN /\ Q = {} =>
                 /\ call.out.source = "live"
                 /\ call.out.bytes = LiveTile(call.tile)
                 /\ call.out.queried = <<>>
            /\ Q # {} =>
                 \E i \in Q :
                   /\ \A k \in Q : i <= k
                   /\ call.out.source = call.packages[i].path
                   /\ call.out.bytes = ReadTile(call.packages[i], call.tile)
                   /\ call.out.queried = <<call.packages[i].path>>

\* C15 witness: the listing starts with a package that does not reach the
\* tile's zoom, then the city, then the region; both cover the tile and the
\* city's tile is the answer.
C15_Witness ==
  /\ call.fn = "resolve"
  /\ Len(call.packages) = 3
  /\ call.packages[1].path = "World.mbtiles"
  /\ call.packages[2].path = "Lyon.mbtiles"
  /\ Cardinality(Qualifying(call.packages, call.tile)) = 2
  /\ call.out # NoResult
  /\ call.out.source = "Lyon.mbtiles"

\* C17: the tick on which the poller finds the fetch thread dead leaves the
\* status bar at nbtiles/nbtiles, whatever the job's rendered counter is: a
\* job that stopped early is announced as a completed one is.
C17_DeadJobPublishedAsComplete ==
  [][ \A j \in 1..Len(jobs) :
        (Probe(j) /\ ~Alive(jobs[j]))
          => /\ status_message' =
                  <<"Downloading tiles", jobs[j].nbtiles, jobs[j].nbtiles>>
             /\ status_bar' = "shown"
    ]_vars

\* C17 witness: a job stopped before its last tile, its poller has seen it
\* dead, and the status bar shows all of its tiles as downloaded.
C17_Witness ==
  \E j \in 1..Len(jobs) :
    /\ jobs[j].sawDead
    /\ jobs[j].rendered < jobs[j].nbtiles
    /\ ~fs[jobs[j].filepath].exists
    /\ status_message =
         <<"Downloading tiles", jobs[j].nbtiles, jobs[j].nbtiles>>

C18_OneClearEvent ==
  /\ Len(clean_timers) <= 1
  /\ status_message # NoMessage =>
       /\ status_bar = "shown"
       /\ Len(clean_timers) = 1
       /\ clean_timers[1].text = status_message
       /\ clean_timers[1].left <= clean_timers[1].lifetime
  /\ status_message = NoMessage => clean_timers = <<>>

\* C18: after any sequence of update_status_message calls at most one clear
\* event is pending, and it is the one the most recent update scheduled; an
\* update starts its event at its own lifetime; the message is emptied and
\* the bar hidden only by that event, when nothing is left of the lifetime;
\* and what is left of a pending event goes down only as the time passes.
C18_ClearedByLatestTimer ==
  /\ []C18_OneClearEvent
  /\ [][ /\ (status_message' # status_message /\ status_message' # NoMessage)
            => /\ clean_timers'[1].text = status_message'
               /\ clean_timers'[1].left = clean_timers'[1].lifetime
         /\ ( /\ status_message # NoMessage
              /\ status_message' = NoMessage \/ status_bar' = "hidden" )
            => /\ clean_timers[1].left = 0
               /\ clean_timers[1].text = status_message
               /\ status_message' = NoMessage
               /\ status_bar' = "hidden"
               /\ clean_timers' = <<>>
         /\ \A i \in 1..Len(clean_timers) :
              ( /\ Len(clean_timers') = Len(clean_timers)
                /\ clean_timers'[i].text = clean_timers[i].text
                /\ clean_timers'[i].left < clean_timers[i].left )
              => /\ Tick
                 /\ clean_timers'[i].left = clean_timers[i].left - 1
       ]_vars

\* C18 witness: the sensor was started (a message of lifetime 10), a search
\* was made later (a message of lifetime 3), and three seconds after the
\* search its own clear event is the one pending, and due.
C18_Witness ==
  /\ gps = "on"
  /\ status_message[1] = "Looking for"
  /\ status_bar = "shown"
  /\ clean_timers = <<[text |-> status_message,
                       lifetime |-> DEFAULT_LIFETIME, left |-> 0]>>

C19_MarkerOnMap ==
  /\ Len(markers) <= 1
  /\ markers # <<>> <=> gps_marker # None
  /\ gps_marker # None => markers = <<gps_marker>>

\* C19: after any sequence of start_gps_localize, on_location and
\* stop_gps_localize the map holds at most one GPS marker, and holds one
\* exactly when gps_marker is not None: that very marker. A location event
\* leaves the marker at the reported (lat, lon) and nothing else moves or
\* adds it, so it is where the most recent report put it; a
\* stop_gps_localize that gps.stop lets through leaves no marker on the map.
C19_OneGpsMarker ==
  /\ []C19_MarkerOnMap
  /\ [][ /\ \A l \in Locations :
              (OnLocation /\ on_location(l[1], l[2]))
                => /\ gps_marker'.lat = l[1] /\ gps_marker'.lon = l[2]
                   /\ markers' = <<gps_marker'>>
         /\ (gps_marker' # gps_marker /\ gps_marker' # None) => OnLocation
         /\ (markers' # markers /\ markers' # <<>>) => OnLocation
         /\ (StopGps /\ gps # "unsupported")
              => (markers' = <<>> /\ gps_marker' = None)
       ]_vars

\* C19 witness: two locations were reported, the second one elsewhere; the
\* map holds the one marker, at the second.
C19_Witness ==
  /\ Len(anims) = 2
  /\ anims[1].by.handler = "on_location"
  /\ anims[2].by.handler = "on_location"
  /\ anims[1].target # anims[2].target
  /\ markers = <<gps_marker>>
  /\ gps_marker.id = 1
  /\ anims[2].target = <<FP(gps_marker.lat), FP(gps_marker.lon)>>

====
